---- MODULE Spec2Model ----
(***************************************************************************)
(* A model of unide.python: the Property descriptor, the Object entity     *)
(* base with its backing store `_data`, the HasDimensions containers and    *)
(* the loads/dumps codec of unide.util, together with the entity classes    *)
(* of unide.common, unide.measurement and unide.message.                    *)
(*                                                                         *)
(* Python values are records tagged by the field k.  A backing store (a     *)
(* dict) is a function from its keys to values.  An operation that can      *)
(* raise yields a record whose field exc names the exception ("none" when   *)
(* it returns).                                                             *)
(***************************************************************************)
EXTENDS Integers, Sequences, FiniteSets, TLC

VARIABLES root, last, py3, nops

vars == <<root, last, py3, nops>>

----------------------------------------------------------------------------
(* Python values *)

NoneV == [k |-> "none"]

Str(s) == [k |-> "str", s |-> s]

(* a byte string (ASCII) *)
Bytes(s) == [k |-> "bytes", s |-> s]

IntV(n) == [k |-> "int", n |-> n]

FloatV(n) == [k |-> "float", n |-> n]

(* A datetime: the wall clock t, counted in steps of 500 microseconds,     *)
(* and the UTC offset text off ("" for a naive datetime).                  *)
DateTime(t, off) == [k |-> "dt", t |-> t, off |-> off]

ListV(items) == [k |-> "list", items |-> items]

EmptyStore == [x \in {} |-> NoneV]

(* A dict; sm marks a schema.StringMap *)
DictV(data) == [k |-> "dict", sm |-> FALSE, data |-> data]

StringMap == [k |-> "dict", sm |-> TRUE, data |-> EmptyStore]

(* The result of make_object: an instance of cls whose _data is data.      *)
(* dims is the `dimensions` set of a HasDimensions instance, attrs the      *)
(* instance attributes that setattr created outside the Property protocol. *)
make_object(cls, data) == [k |-> "obj", cls |-> cls, data |-> data, dims |-> {}, attrs |-> EmptyStore]

Put(d, key, v) == [x \in (DOMAIN d) \cup {key} |-> IF x = key THEN v ELSE d[x]]

Pop(d, key) == [x \in (DOMAIN d) \ {key} |-> d[x]]

DictGet(d, key) == IF key \in DOMAIN d THEN d[key] ELSE NoneV

RECURSIVE SetToSeq(_)

Cons(x, S) == <<x>> \o SetToSeq(S \ {x})

(* the elements of a set in the order an iteration visits them *)
SetToSeq(S) == IF S = {} THEN <<>> ELSE Cons(CHOOSE y \in S : TRUE, S)

IsObj(v) == v.k = "obj"

(* type(value) as far as isinstance distinguishes it *)
TypeOf(v) == IF IsObj(v) THEN v.cls ELSE v.k

Returned(v) == [exc |-> "none", val |-> v]

Raised(e) == [exc |-> e, val |-> NoneV]

----------------------------------------------------------------------------
(* unide.util: time zones and ISO-8601 text *)

LocalTz == "+02:00"

Offsets == {"", "+00:00", "+02:00"}

MaxT == 2

(* utcoffset() in milliseconds *)
MsOf(off) == IF off = "+02:00" THEN 7200000 ELSE 0

DateTimes == {DateTime(t, off) : t \in 0..MaxT, off \in Offsets}

(* the microsecond field of a datetime *)
microsecond(d) == 500 * d.t

RECURSIVE ZeroPad(_, _)
(* "%0<width>d" *)
ZeroPad(s, width) == IF Len(s) < width THEN ZeroPad("0" \o s, width) ELSE s

(* datetime.isoformat(): the fraction is left out when microsecond is 0    *)
(* and has six digits otherwise                                            *)
isoformat(d) ==
    "T00" \o (IF microsecond(d) = 0 THEN "" ELSE "." \o ZeroPad(ToString(microsecond(d)), 6))
          \o d.off

(* the ISO-8601 texts that denote d: what isoformat() prints, the same     *)
(* time with a fraction of three digits (milliseconds), and Z for +00:00   *)
IsoTimes(d) ==
    {"T00" \o (IF microsecond(d) = 0 THEN "" ELSE "." \o ZeroPad(ToString(microsecond(d)), 6))}
    \cup (IF microsecond(d) % 1000 = 0
          THEN {"T00." \o ZeroPad(ToString(microsecond(d) \div 1000), 3)} ELSE {})

IsoTexts(d) ==
    {time \o d.off : time \in IsoTimes(d)}
    \cup (IF d.off = "+00:00" THEN {time \o "Z" : time \in IsoTimes(d)} ELSE {})

IsIsoText(s) == \E d \in DateTimes : s \in IsoTexts(d)

(* dateutil.parser.parse: the datetime that the ISO text s denotes *)
parse(v) ==
    IF v.k # "str" THEN Raised("TypeError")
    ELSE IF ~IsIsoText(v.s) THEN Raised("ValueError")
    ELSE Returned(CHOOSE d \in DateTimes : v.s \in IsoTexts(d))

local_timezone(v) == IF v.k = "dt" /\ v.off = "" THEN DateTime(v.t, LocalTz) ELSE v

----------------------------------------------------------------------------
(* schema.Property and the factories that build one *)

NoLength == 0 - 1

identity(x) == Returned(x)

(* Property.__init__.  types = {} is `types=None`, has_oneof = FALSE is     *)
(* `oneof=None`, length = NoLength is `length=None`.                       *)
Property(name, types, has_oneof, oneof, length, default, null, convert, load) ==
    [attr |-> name, name |-> name, types |-> types, has_oneof |-> has_oneof,
     oneof |-> oneof, length |-> length, default |-> default, null |-> null,
     convert |-> convert, load |-> load]

stringy_types == {"str", "bytes"}

NoLoad == [load |-> "identity", cls |-> ""]

(* The factories take their arguments as unide.common, unide.measurement   *)
(* and unide.message pass them: the name first, then the length or the     *)
(* class.  oneof = {} is `oneof=None`.                                     *)
String(name, length, oneof, null) ==
    Property(name, stringy_types, oneof # {}, oneof, length, "None", null, "to_string", NoLoad)

Float(name) ==
    Property(name, {"float"}, FALSE, {}, NoLength, "None", TRUE, "float", NoLoad)

Map(name) ==
    Property(name, {}, FALSE, {}, NoLength, "StringMap", TRUE, "identity", NoLoad)

Datetime(name, null) ==
    Property(name, {"dt"}, FALSE, {}, NoLength, "None", null, "local_timezone", [load |-> "parse", cls |-> ""])

InstanceOf(name, cls, default) ==
    Property(name, {cls}, FALSE, {}, NoLength, default, TRUE, "identity", [load |-> "one", cls |-> cls])

ListOf(name, cls) ==
    Property(name, {"list"}, FALSE, {}, NoLength, "list", TRUE, "identity", [load |-> "list", cls |-> cls])

----------------------------------------------------------------------------
(* unide.common, unide.measurement, unide.message: the entity classes *)

CodeLength == 36

DeviceIDLength == 36

PartIDLength == 256

TitleLength == 1000

TextLength == 2000

Code(null) == String("code", CodeLength, {}, null)

DeviceID(null) == String("deviceID", DeviceIDLength, {}, null)

Result == String("result", NoLength, {"OK", "NOK", "UNKNOWN"}, TRUE)

MessageType == String("type", NoLength, {"DEVICE", "TECHNICAL_INFO"}, TRUE)

Severity == String("severity", NoLength, {"HIGH", "MEDIUM", "LOW", "UNKNOWN"}, TRUE)

MEASUREMENT_SPEC == "urn:spec://eclipse.org/unide/measurement-message#v2"

MESSAGE_SPEC == "urn:spec://eclipse.org/unide/machine-message#v2"

PROCESS_SPEC == "urn:spec://eclipse.org/unide/process-message#v2"

Classes == {"Device", "Limit", "Limits", "Series", "Measurement", "Part",
            "MeasurementPayload", "Message", "MessagePayload", "ProcessPayload"}

(* The Property attributes of each class, in definition order *)
ClassProps(cls) ==
    CASE cls = "Device" ->
           <<DeviceID(FALSE), String("operationalStatus", NoLength, {}, TRUE), Map("metaData")>>
      [] cls = "Limit" ->
           <<Float("upperError"), Float("lowerError"), Float("upperWarning"), Float("lowerWarning")>>
      [] cls = "Limits" -> <<>>
      [] cls = "Series" ->
           <<[Property("$_time", {}, FALSE, {}, NoLength, "None", TRUE, "identity", NoLoad)
                EXCEPT !.attr = "offsets"]>>
      [] cls = "Measurement" ->
           <<Datetime("ts", FALSE), Result, Code(TRUE),
             InstanceOf("series", "Series", "Series"), InstanceOf("limits", "Limits", "Limits")>>
      [] cls = "Part" ->
           <<String("partTypeID", NoLength, {}, TRUE), String("partID", PartIDLength, {}, TRUE),
             Result, Code(TRUE), Map("metaData")>>
      [] cls = "MeasurementPayload" ->
           <<InstanceOf("device", "Device", "None"), InstanceOf("part", "Part", "None"),
             ListOf("measurements", "Measurement")>>
      [] cls = "Message" ->
           <<Datetime("ts", TRUE), String("origin", NoLength, {}, TRUE), MessageType, Severity,
             Code(FALSE), String("title", TitleLength, {}, TRUE),
             String("description", TextLength, {}, TRUE), String("hint", TextLength, {}, TRUE),
             Map("metaData")>>
      [] cls = "MessagePayload" ->
           <<InstanceOf("device", "Device", "None"), ListOf("messages", "Message")>>
      \* the entities of process.py below the payload are named, not modelled
      [] cls = "ProcessPayload" ->
           <<InstanceOf("device", "Device", "None"), InstanceOf("part", "process.Part", "None"),
             InstanceOf("process", "process.Process", "None"),
             ListOf("measurements", "process.Measurement")>>

(* getattr(cls, "CONTENT_SPEC", None); "" when the class has none *)
CONTENT_SPEC(cls) ==
    CASE cls = "MeasurementPayload" -> MEASUREMENT_SPEC
      [] cls = "MessagePayload" -> MESSAGE_SPEC
      [] cls = "ProcessPayload" -> PROCESS_SPEC
      [] OTHER -> ""

(* the classes derived from HasDimensions, and their __dimtype__ *)
DimClasses == {"Limits", "Series"}

ByName(ps) ==
    [n \in {ps[i].name : i \in 1..Len(ps)} |-> ps[CHOOSE i \in 1..Len(ps) : ps[i].name = n]]

(* Object.get_properties: {prop-name: prop} *)
get_properties(cls) == ByName(ClassProps(cls))

PropNames(cls) == DOMAIN get_properties(cls)

ByAttr(ps) ==
    [a \in {ps[i].attr : i \in 1..Len(ps)} |-> ps[CHOOSE i \in 1..Len(ps) : ps[i].attr = a]]

(* the Property that the class attribute `attr` holds *)
HasPropAttr(cls, attr) == attr \in DOMAIN ByAttr(ClassProps(cls))

PropAttr(cls, attr) == ByAttr(ClassProps(cls))[attr]

----------------------------------------------------------------------------
(* Property.convert, Property.check and Object.problems *)

(* the text of the numbers that float() accepts *)
NumberText == [s \in {"1", "12"} |-> IF s = "1" THEN 1 ELSE 12]

(* the builtin float() *)
float(v) ==
    CASE v.k \in {"float", "int"} -> Returned(FloatV(v.n))
      [] v.k = "str" -> IF v.s \in DOMAIN NumberText THEN Returned(FloatV(NumberText[v.s]))
                        ELSE Raised("ValueError")
      [] OTHER -> Raised("TypeError")

(* to_string: str(value) of a stringy value, where str is unicode on       *)
(* Python 2.  A text stays as it is; bytes are decoded on Python 2 and     *)
(* become their repr on Python 3.                                          *)
to_string(v) ==
    IF v.k = "bytes" THEN Str(IF py3 THEN "b'" \o v.s \o "'" ELSE v.s) ELSE v

convert(p, v) ==
    CASE p.convert = "float" -> float(v)
      [] p.convert = "to_string" -> Returned(to_string(v))
      [] p.convert = "local_timezone" -> Returned(local_timezone(v))
      [] OTHER -> identity(v)

(* len(value); Sized is whether value has a len() *)
Sized(v) == v.k \in {"str", "bytes", "list", "dict"}

len(v) ==
    CASE v.k \in {"str", "bytes"} -> Len(v.s)
      [] v.k = "list" -> Len(v.items)
      [] v.k = "dict" -> Cardinality(DOMAIN v.data)
      [] OTHER -> 0

(* the error strings, by what they report *)
Err(e, cls, f) == [e |-> e, cls |-> cls, f |-> f]

Checked(errs) == [exc |-> "none", errs |-> errs]

CheckRaised(e) == [exc |-> e, errs |-> <<>>]

(* a type check that never fires *)
NoTypeCheck(p, v) == FALSE

_has_wrong_type(p, v) == p.types # {} /\ TypeOf(v) \notin p.types

(* a length check that never fires *)
NoLengthCheck(p, v) == FALSE

_has_wrong_length(p, v) == p.length # NoLength /\ len(v) > p.length

_is_not_one_of(p, v) == p.has_oneof /\ (v.k # "str" \/ v.s \notin p.oneof)

(* a check that never descends into the value *)
NoSubproblems(v) == FALSE

_has_subproblems(v) == IsObj(v)

(* a container that vouches for no key *)
NoExcessFieldOk(o, name) == FALSE

is_excess_field_ok(o, name) == IF o.cls \in DimClasses THEN name \in o.dims ELSE FALSE

RECURSIVE problems(_)

(* Property.check(obj, value, errors): the errors it appends *)
check(cls, p, v) ==
    IF v = NoneV
    THEN Checked(IF ~p.null THEN <<Err("null", cls, p.name)>> ELSE <<>>)
    ELSE IF _has_wrong_type(p, v) THEN Checked(<<Err("type", cls, p.name)>>)
    ELSE IF p.length # NoLength /\ ~Sized(v) THEN CheckRaised("TypeError")
    ELSE IF _has_wrong_length(p, v) THEN Checked(<<Err("length", cls, p.name)>>)
    ELSE IF _is_not_one_of(p, v) THEN Checked(<<Err("oneof", cls, p.name)>>)
    ELSE IF _has_subproblems(v) THEN problems(v)
    ELSE Checked(<<>>)

RECURSIVE CheckAll(_, _, _)

Merge(acc, r) == IF r.exc # "none" THEN r ELSE Checked(acc.errs \o r.errs)

(* prop.check(self, self._data.get(name), errors) when name is an existing field *)
CheckField(o, name) ==
    IF name \in DOMAIN o.data
    THEN check(o.cls, get_properties(o.cls)[name], DictGet(o.data, name))
    ELSE Checked(<<>>)

(* the loop of Object.problems over get_properties().items() *)
CheckAll(o, names, acc) ==
    IF names = <<>> \/ acc.exc # "none" THEN acc
    ELSE CheckAll(o, Tail(names), Merge(acc, CheckField(o, Head(names))))

(* the content-spec check of Object.problems *)
SpecErrors(o, content_spec) ==
    IF content_spec # "" /\ DictGet(o.data, "content-spec") # Str(content_spec)
    THEN <<Err("content-spec", o.cls, "content-spec")>> ELSE <<>>

InvalidKeys(cls, excess) == [i \in 1..Len(excess) |-> Err("key", cls, excess[i])]

(* the fields existing_fields.remove("content-spec") takes out *)
Discriminator(cls) == IF CONTENT_SPEC(cls) # "" THEN {"content-spec"} ELSE {}

(* the loop of Object.problems over the fields no Property consumed *)
ExcessErrors(o) ==
    InvalidKeys(o.cls, SetToSeq({f \in (DOMAIN o.data) \ (PropNames(o.cls) \cup Discriminator(o.cls)) :
                                   ~is_excess_field_ok(o, f)}))

WithExcess(props, excess) ==
    IF props.exc # "none" THEN props ELSE Checked(props.errs \o excess)

(* Object.problems() *)
problems(o) ==
    IF Discriminator(o.cls) \ DOMAIN o.data # {} THEN CheckRaised("KeyError")
    ELSE WithExcess(CheckAll(o, SetToSeq(PropNames(o.cls)),
                             Checked(SpecErrors(o, CONTENT_SPEC(o.cls)))),
                    ExcessErrors(o))

----------------------------------------------------------------------------
(* Property.__get__, __set__, __delete__ on an instance o *)

(* an operation on an instance: the exception, the instance afterwards     *)
(* and the value returned                                                  *)
Done(o, v) == [exc |-> "none", obj |-> o, val |-> v]

Failed(e, o) == [exc |-> e, obj |-> o, val |-> NoneV]

Limits == make_object("Limits", EmptyStore)

(* Series(): HasDimensions.__init__ and then self.offsets = list() *)
Series == make_object("Series", Put(EmptyStore, "$_time", ListV(<<>>)))

(* what the default factory of a Property returns *)
default(p) ==
    CASE p.default = "StringMap" -> StringMap
      [] p.default = "list" -> ListV(<<>>)
      [] p.default = "Series" -> Series
      [] p.default = "Limits" -> Limits
      [] OTHER -> NoneV

(* dict.setdefault *)
setdefault(d, key, v) == IF key \in DOMAIN d THEN d ELSE Put(d, key, v)

(* a __get__ that takes the factory's result on every read *)
PropertyGetFresh(o, p) ==
    Done([o EXCEPT !.data = Put(o.data, p.name, default(p))], default(p))

(* Property.__get__ *)
PropertyGet(o, p) ==
    Done([o EXCEPT !.data = setdefault(o.data, p.name, default(p))],
         setdefault(o.data, p.name, default(p))[p.name])

(* Property.__delete__ *)
PropertyDelete(o, p) == [o EXCEPT !.data = Pop(o.data, p.name)]

(* `if errors: raise ValueError` *)
RaiseIf(errors, o) ==
    IF errors.exc # "none" THEN Failed(errors.exc, o)
    ELSE IF errors.errs # <<>> THEN Failed("ValueError", o)
    ELSE Done(o, NoneV)

(* the branch of Property.__set__ for a value that is not None: errors is   *)
(* what check appended for the converted value                             *)
StoreIf(errors, o, p, value) ==
    IF errors.exc = "none" /\ errors.errs = <<>>
    THEN Done([o EXCEPT !.data = Put(o.data, p.name, value)], NoneV)
    ELSE RaiseIf(errors, o)

SetConverted(o, p, c) ==
    IF c.exc # "none" THEN Failed(c.exc, o) ELSE StoreIf(check(o.cls, p, c.val), o, p, c.val)

(* Property.__set__ *)
PropertySet(o, p, value) ==
    IF value = NoneV
    THEN RaiseIf(check(o.cls, p, value), PropertyDelete(o, p))
    ELSE SetConverted(o, p, convert(p, value))

(* the instance attribute that names the object stored under the same key *)
Alias == [k |-> "alias"]

(* setattr(o, attr, value): through the Property the class holds under     *)
(* attr, else a plain instance attribute                                   *)
setattr(o, attr, value) ==
    IF HasPropAttr(o.cls, attr) THEN PropertySet(o, PropAttr(o.cls, attr), value)
    ELSE Done([o EXCEPT !.attrs = Put(o.attrs, attr, value)], NoneV)

RECURSIVE SetAll(_, _)

SetRest(r, sets) == IF r.exc # "none" THEN r ELSE SetAll(r.obj, sets)

(* consecutive `self.attr = value` statements; the first to raise ends it *)
SetAll(o, sets) ==
    IF sets = <<>> THEN Done(o, NoneV)
    ELSE SetRest(setattr(o, Head(sets)[1], Head(sets)[2]), Tail(sets))

(* measurement.Limit(upperError, lowerError, upperWarning, lowerWarning) *)
Limit(upperError, lowerError, upperWarning, lowerWarning) ==
    SetAll(make_object("Limit", EmptyStore),
           <<<<"upperError", upperError>>, <<"lowerError", lowerError>>,
             <<"upperWarning", upperWarning>>, <<"lowerWarning", lowerWarning>>>>)

(* self.__dimtype__() *)
dimtype(cls) == IF cls = "Limits" THEN Limit(NoneV, NoneV, NoneV, NoneV).obj ELSE ListV(<<>>)

(* make_object(self.__dimtype__, data) *)
make_dim(cls, data) == IF cls = "Limits" THEN make_object("Limit", data.data) ELSE data

Returning(r, v) == [r EXCEPT !.val = IF r.exc = "none" THEN v ELSE NoneV]

(* an add_dimension that stores valobj and declares nothing *)
StoreValobj(o, name, valobj) ==
    Returning(Done([o EXCEPT !.data = Put(o.data, name, valobj),
                             !.attrs = Put(o.attrs, name, Alias)], NoneV), valobj)

(* the body of add_dimension once valobj is built *)
AddValobj(o, name, valobj) ==
    Returning(IF HasPropAttr(o.cls, name)
              THEN PropertySet([o EXCEPT !.dims = o.dims \cup {name},
                                         !.data = Put(o.data, name, valobj)],
                               PropAttr(o.cls, name), valobj)
              ELSE Done([o EXCEPT !.dims = o.dims \cup {name},
                                  !.data = Put(o.data, name, valobj),
                                  !.attrs = Put(o.attrs, name, Alias)], NoneV),
              valobj)

(* HasDimensions.add_dimension(name, data); data = NoneV is `data=None` *)
add_dimension(o, name, data) ==
    AddValobj(o, name, IF data = NoneV THEN dimtype(o.cls) ELSE make_dim(o.cls, data))

(* getattr(o, attr): a Property of the class is read through __get__; an   *)
(* instance attribute is the object the store holds under the same key    *)
(* while add_dimension's assignment stands, else the object assigned to it *)
getattr(o, attr) ==
    IF HasPropAttr(o.cls, attr) THEN PropertyGet(o, PropAttr(o.cls, attr))
    ELSE IF attr \notin DOMAIN o.attrs THEN Failed("AttributeError", o)
    ELSE IF o.attrs[attr] = Alias THEN Done(o, o.data[attr])
    ELSE Done(o, o.attrs[attr])

(* HasDimensions.__getitem__ *)
__getitem__(o, key) == getattr(o, key)

(* `return setattr(self, key, value)` after the add_dimension call r *)
DeclaredThenSet(r, key, value) == IF r.exc # "none" THEN r ELSE setattr(r.obj, key, value)

(* a __setitem__ that declares nothing *)
SetUndeclared(o, key, value) == setattr(o, key, value)

(* HasDimensions.__setitem__ *)
__setitem__(o, key, value) ==
    IF key \notin o.dims THEN DeclaredThenSet(add_dimension(o, key, NoneV), key, value)
    ELSE setattr(o, key, value)

----------------------------------------------------------------------------
(* unide.util.dumps and the load class methods *)

RECURSIVE dumps(_)
(* json.dumps with _encoder, read back as the JSON value it denotes: an    *)
(* entity becomes its _data, a datetime its isoformat() text               *)
dumps(v) ==
    CASE v.k = "obj" -> DictV([key \in DOMAIN v.data |-> dumps(v.data[key])])
      [] v.k = "dict" -> DictV([key \in DOMAIN v.data |-> dumps(v.data[key])])
      [] v.k = "list" -> ListV([i \in 1..Len(v.items) |-> dumps(v.items[i])])
      [] v.k = "dt" -> Str(isoformat(v))
      [] OTHER -> v

RECURSIVE load(_, _)

RECURSIVE _list_load(_, _, _)

ListRest(cls, items, acc, r) ==
    IF r.exc # "none" THEN r ELSE _list_load(cls, items, Append(acc, r.val))

(* [cls.load(d) for d in value] over the items still to load *)
_list_load(cls, items, acc) ==
    IF items = <<>> THEN Returned(ListV(acc))
    ELSE ListRest(cls, Tail(items), acc, load(cls, Head(items)))

(* Property.load(value) *)
PropertyLoad(p, value) ==
    CASE p.load.load = "parse" -> parse(value)
      [] p.load.load = "one" -> load(p.load.cls, value)
      [] p.load.load = "list" ->
           IF value.k = "list" THEN _list_load(p.load.cls, value.items, <<>>)
           ELSE IF value.k \in {"dict", "str"}
                THEN IF len(value) = 0 THEN Returned(ListV(<<>>)) ELSE Raised("AttributeError")
           ELSE Raised("TypeError")
      [] OTHER -> identity(value)

RECURSIVE ObjectLoadItems(_, _, _)

ItemsRest(r, data, keys) ==
    IF r.exc # "none" THEN r ELSE ObjectLoadItems(r.obj, data, keys)

(* setattr(self, key, prop.load(value)); v is what prop.load returned *)
SetLoaded(o, key, v) == IF v.exc # "none" THEN Failed(v.exc, o) ELSE setattr(o, key, v.val)

(* the loop of Object.load over data.items(); data is the dict as it was   *)
(* when the iteration began.  Python 3 iterates the live dict and raises    *)
(* RuntimeError once its size has changed.                                 *)
ObjectLoadItems(o, data, keys) ==
    IF py3 /\ DOMAIN o.data # DOMAIN data THEN Failed("RuntimeError", o)
    ELSE IF keys = <<>> THEN Done(o, NoneV)
    ELSE IF Head(keys) \notin PropNames(o.cls) THEN ObjectLoadItems(o, data, Tail(keys))
    ELSE ItemsRest(SetLoaded(o, Head(keys),
                             PropertyLoad(get_properties(o.cls)[Head(keys)], data[Head(keys)])),
                   data, Tail(keys))

(* `return self`, unless the load raised *)
ReturnSelf(r) == IF r.exc # "none" THEN Raised(r.exc) ELSE Returned(r.obj)

(* Object.load *)
ObjectLoad(cls, data) ==
    IF data.k # "dict" THEN Raised("AttributeError")
    ELSE ReturnSelf(ObjectLoadItems(make_object(cls, data.data), data.data,
                                    SetToSeq(DOMAIN data.data)))

RECURSIVE AddDimensions(_, _, _)

DimensionsRest(r, data, keys) ==
    IF r.exc # "none" THEN r ELSE AddDimensions(r.obj, data, keys)

(* for key, value in data.items(): self.add_dimension(key, value) *)
AddDimensions(o, data, keys) ==
    IF keys = <<>> THEN Done(o, NoneV)
    ELSE DimensionsRest(add_dimension(o, Head(keys), data[Head(keys)]), data, Tail(keys))

(* HasDimensions.load *)
HasDimensionsLoad(cls, data) ==
    IF data.k # "dict" THEN Raised("AttributeError")
    ELSE ReturnSelf(AddDimensions(make_object(cls, data.data), data.data,
                                  SetToSeq(DOMAIN data.data)))

(* a Series.load that declares no dimension *)
LoadUndeclared(data) ==
    IF data.k # "dict" THEN Raised("AttributeError")
    ELSE Returned(make_object("Series", data.data))

(* Series.load *)
SeriesLoad(data) ==
    IF data.k # "dict" THEN Raised("AttributeError")
    ELSE ReturnSelf(AddDimensions(make_object("Series", data.data), data.data,
                                  SetToSeq((DOMAIN data.data) \ {"$_time"})))

(* cls.load(data) *)
load(cls, data) ==
    CASE cls = "Series" -> SeriesLoad(data)
      [] cls = "Limits" -> HasDimensionsLoad(cls, data)
      [] OTHER -> ObjectLoad(cls, data)

(* a registry that holds the message payload under the measurement URN    *)
(* and the measurement payload under the message URN                       *)
CrossRegistered ==
    MEASUREMENT_SPEC :> "MessagePayload" @@ MESSAGE_SPEC :> "MeasurementPayload"
    @@ PROCESS_SPEC :> "ProcessPayload"

(* util.CONTENT_SPECS once the payload modules are imported *)
CONTENT_SPECS ==
    MEASUREMENT_SPEC :> "MeasurementPayload" @@ MESSAGE_SPEC :> "MessagePayload"
    @@ PROCESS_SPEC :> "ProcessPayload"

(* every value can be a key *)
AllHashable(v) == TRUE

Hashable(v) == v.k \notin {"list", "dict"}

(* util.loads(data, validate) of the JSON text that denotes d.  payload is *)
(* the entity Payload.load built, when it built one.                       *)
Loaded(exc, payload, val) == [exc |-> exc, payload |-> payload, val |-> val]

(* a loads that leaves the errors alone *)
ValidateNothing(payload, errors) == Loaded("none", payload, payload)

(* `errors = payload.problems(); if errors: raise ValidationError(errors)` *)
Validate(payload, errors) ==
    IF errors.exc # "none" THEN Loaded(errors.exc, payload, NoneV)
    ELSE IF errors.errs # <<>> THEN Loaded("ValidationError", payload, NoneV)
    ELSE Loaded("none", payload, payload)

(* the rest of loads once Payload.load(d) is done *)
LoadsPayload(payload, validate) ==
    IF payload.exc # "none" THEN Loaded(payload.exc, NoneV, NoneV)
    ELSE IF validate THEN Validate(payload.val, problems(payload.val))
    ELSE Loaded("none", payload.val, payload.val)

(* Payload = CONTENT_SPECS[content_spec] *)
Registered(content_spec) == content_spec.k = "str" /\ content_spec.s \in DOMAIN CONTENT_SPECS

loads(d, validate) ==
    IF d.k # "dict" THEN Loaded("TypeError", NoneV, NoneV)
    ELSE IF "content-spec" \notin DOMAIN d.data THEN Loaded("KeyError", NoneV, NoneV)
    ELSE IF ~Hashable(d.data["content-spec"]) THEN Loaded("TypeError", NoneV, NoneV)
    ELSE IF ~Registered(d.data["content-spec"]) THEN Loaded("KeyError", NoneV, NoneV)
    ELSE LoadsPayload(load(CONTENT_SPECS[d.data["content-spec"].s], d), validate)

----------------------------------------------------------------------------
(* the constructors: Object.__new__ followed by the class's __init__.      *)
(* __new__ passes the keyword arguments to setattr before __init__ does     *)
(* the same, so the sets of __init__ decide the outcome.                   *)

(* StringMap.__setitem__ *)
StringMapSet(m, key, value) ==
    IF m.sm /\ value.k # "str" THEN Raised("ValueError")
    ELSE Returned([m EXCEPT !.data = Put(m.data, key, value)])

(* dict.update through StringMap.__setitem__ on the map that g read *)
Update(g, metaData) ==
    IF \E key \in DOMAIN metaData : g.val.sm /\ metaData[key].k # "str"
    THEN Failed("ValueError", g.obj)
    ELSE Done([g.obj EXCEPT !.data["metaData"].data =
                 [key \in (DOMAIN g.val.data) \cup (DOMAIN metaData) |->
                    IF key \in DOMAIN metaData THEN metaData[key] ELSE g.val.data[key]]],
              NoneV)

(* `if metaData: self.metaData.update(metaData)` *)
UpdateMetaData(o, metaData) ==
    IF DOMAIN metaData = {} THEN Done(o, NoneV)
    ELSE Update(PropertyGet(o, PropAttr(o.cls, "metaData")), metaData)

Then(r, metaData) == IF r.exc # "none" THEN r ELSE UpdateMetaData(r.obj, metaData)

(* common.Device(deviceID, operationalStatus, metaData) *)
Device(deviceID, operationalStatus, metaData) ==
    Then(SetAll(make_object("Device", EmptyStore),
                <<<<"deviceID", deviceID>>, <<"operationalStatus", operationalStatus>>>>),
         metaData)

(* measurement.Part(partTypeID, partID, result, code, metaData) *)
Part(partTypeID, partID, result, code, metaData) ==
    Then(SetAll(make_object("Part", EmptyStore),
                <<<<"partTypeID", partTypeID>>, <<"partID", partID>>, <<"result", result>>,
                  <<"code", code>>>>),
         metaData)

(* message.Message(code, ts, type, severity, metaData); origin, title,      *)
(* description and hint are left at their default None                      *)
Message(code, ts, type, severity, metaData) ==
    Then(SetAll(make_object("Message", EmptyStore),
                <<<<"ts", ts>>, <<"code", code>>, <<"origin", NoneV>>, <<"type", type>>,
                  <<"severity", severity>>, <<"title", NoneV>>, <<"description", NoneV>>,
                  <<"hint", NoneV>>>>),
         metaData)

RECURSIVE AddAll(_, _)

AddRest(r, dimensions) == IF r.exc # "none" THEN r ELSE AddAll(r.obj, dimensions)

(* HasDimensions.__init__ with its dimensions *)
AddAll(o, dimensions) ==
    IF dimensions = <<>> THEN Done(o, NoneV)
    ELSE AddRest(add_dimension(o, Head(dimensions), NoneV), Tail(dimensions))

(* measurement.Series with its dimensions: HasDimensions.__init__ and then *)
(* self.offsets = list()                                                   *)
NewSeries(dimensions) ==
    SetRest(AddAll(make_object("Series", EmptyStore), dimensions), <<<<"offsets", ListV(<<>>)>>>>)

(* measurement.Limits with its dimensions *)
NewLimits(dimensions) == AddAll(make_object("Limits", EmptyStore), dimensions)

(* measurement.Measurement(ts, result, code, dimensions); now is what       *)
(* local_now() returns when ts is None                                     *)
Measurement(ts, result, code, dimensions, now) ==
    SetAll(make_object("Measurement", EmptyStore),
           <<<<"ts", IF ts = NoneV THEN now ELSE ts>>, <<"result", result>>,
             <<"code", code>>, <<"series", NewSeries(dimensions).obj>>>>)

(* measurement.MeasurementPayload(device, part=None, measurements=None) *)
MeasurementPayload(device, part, measurements) ==
    SetAll(make_object("MeasurementPayload",
                       Put(EmptyStore, "content-spec", Str(MEASUREMENT_SPEC))),
           <<<<"device", device>>, <<"part", part>>,
             <<"measurements", IF measurements = NoneV \/ measurements = ListV(<<>>)
                               THEN ListV(<<>>) ELSE measurements>>>>)

(* message.MessagePayload(device) *)
MessagePayload(device) ==
    SetAll(make_object("MessagePayload", Put(EmptyStore, "content-spec", Str(MESSAGE_SPEC))),
           <<<<"device", device>>>>)

----------------------------------------------------------------------------
(* measurement.Series.add_sample *)

(* lst.append(value) on the list that the read g returned: the list is    *)
(* the one the store holds under name                                      *)
AppendToField(g, name, value) ==
    IF g.val.k = "list" THEN Done([g.obj EXCEPT !.data[name].items = Append(@, value)], NoneV)
    ELSE Failed("AttributeError", g.obj)

(* getattr(self, dim).append(value): a Property of the class under dim is  *)
(* read through __get__; else the instance attribute that add_dimension    *)
(* set is the object the store holds under dim, unless it was reassigned   *)
AppendToDim(o, dim, value) ==
    IF HasPropAttr(o.cls, dim)
    THEN AppendToField(PropertyGet(o, PropAttr(o.cls, dim)), PropAttr(o.cls, dim).name, value)
    ELSE IF dim \notin DOMAIN o.attrs THEN Failed("AttributeError", o)
    ELSE IF o.attrs[dim] = Alias
         THEN IF dim \in DOMAIN o.data /\ o.data[dim].k = "list"
              THEN Done([o EXCEPT !.data[dim].items = Append(@, value)], NoneV)
              ELSE Failed("AttributeError", o)
    ELSE IF o.attrs[dim].k = "list"
         THEN Done([o EXCEPT !.attrs[dim].items = Append(@, value)], NoneV)
    ELSE Failed("AttributeError", o)

RECURSIVE AppendSamples(_, _, _)

SamplesRest(r, dims, data) == IF r.exc # "none" THEN r ELSE AppendSamples(r.obj, dims, data)

(* for dim in self.dimensions: getattr(self, dim).append(data.get(dim, None)) *)
AppendSamples(o, dims, data) ==
    IF dims = <<>> THEN Done(o, NoneV)
    ELSE SamplesRest(AppendToDim(o, Head(dims), DictGet(data, Head(dims))), Tail(dims), data)

(* the assert and the loop that follow self.offsets.append(offset); debug  *)
(* is __debug__: the interpreter drops assert statements under -O          *)
CheckedSamples(r, data, debug) ==
    IF r.exc # "none" THEN r
    ELSE IF debug /\ ~(DOMAIN data \subseteq r.obj.dims) THEN Failed("AssertionError", r.obj)
    ELSE AppendSamples(r.obj, SetToSeq(r.obj.dims), data)

(* Series.add_sample(offset, **data) *)
Series_add_sample(o, offset, data, debug) ==
    CheckedSamples(AppendToField(PropertyGet(o, PropAttr("Series", "offsets")), "$_time", offset),
                   data, debug)

----------------------------------------------------------------------------
(* measurement.Measurement.add_sample *)

(* bool(value), as `if not value` takes it *)
Truthy(v) ==
    CASE v.k = "none" -> FALSE
      [] v.k = "list" -> v.items # <<>>
      [] v.k \in {"int", "float"} -> v.n # 0
      [] v.k \in {"str", "bytes"} -> v.s # ""
      [] v.k = "dict" -> DOMAIN v.data # {}
      [] OTHER -> TRUE

(* datetime.timedelta, normalised, of a difference counted in steps of     *)
(* 500 microseconds                                                        *)
timedelta(steps) ==
    [days |-> steps \div 172800000,
     seconds |-> (steps % 172800000) \div 2000,
     microseconds |-> 500 * (steps % 2000)]

(* a - b of two datetimes: the difference of the instants when both are    *)
(* aware, of the wall clocks when both are naive, a TypeError otherwise     *)
Minus(a, b) ==
    IF a.k # "dt" \/ b.k # "dt" THEN Raised("TypeError")
    ELSE IF (a.off = "") # (b.off = "") THEN Raised("TypeError")
    ELSE Returned(timedelta((a.t - 2 * MsOf(a.off)) - (b.t - 2 * MsOf(b.off))))

(* dt.days * 24 * 60 * 60 * 1000 + dt.seconds * 1000 + dt.microseconds // 1000 *)
OffsetOf(dt) == dt.days * 24 * 60 * 60 * 1000 + dt.seconds * 1000 + dt.microseconds \div 1000

(* the result r of a call on the series that o holds, as a result on o *)
OnSeries(o, r) == [r EXCEPT !.obj = [o EXCEPT !.data["series"] = r.obj]]

(* self.series.add_sample(offset, **kwargs), once r is what came before *)
AddOffset(r, offset, kwargs, debug) ==
    IF r.exc # "none" THEN r
    ELSE OnSeries(r.obj, Series_add_sample(r.obj.data["series"], offset, kwargs, debug))

(* offset = ...; dt is the outcome of ts - self.ts *)
OffsetFrom(o, dt, kwargs, debug) ==
    IF dt.exc # "none" THEN Failed(dt.exc, o)
    ELSE AddOffset(Done(o, NoneV), IntV(OffsetOf(dt.val)), kwargs, debug)

(* the else branch: g is the read of self.ts *)
LaterSample(g, ts, kwargs, debug) == OffsetFrom(g.obj, Minus(ts, g.val), kwargs, debug)

(* the if statement: o holds the series that the read of offsets left *)
FirstOrLater(o, offsets, ts, kwargs, debug) ==
    IF ~Truthy(offsets) THEN AddOffset(setattr(o, "ts", ts), IntV(0), kwargs, debug)
    ELSE LaterSample(PropertyGet(o, PropAttr("Measurement", "ts")), ts, kwargs, debug)

(* self.series.offsets: g is the read of series on the measurement o *)
ReadOffsets(o, g, ts, kwargs, debug) ==
    FirstOrLater([o EXCEPT !.data["series"] = g.obj], g.val, ts, kwargs, debug)

(* g is the read of self.series *)
OfSeries(g, ts, kwargs, debug) ==
    IF ~(IsObj(g.val) /\ g.val.cls = "Series") THEN Failed("AttributeError", g.obj)
    ELSE ReadOffsets(g.obj, PropertyGet(g.val, PropAttr("Series", "offsets")), ts, kwargs, debug)

(* Measurement.add_sample(ts, **kwargs) *)
Measurement_add_sample(o, ts, kwargs, debug) ==
    OfSeries(PropertyGet(o, PropAttr("Measurement", "series")), ts, kwargs, debug)

----------------------------------------------------------------------------
(* measurement.Measurement.samples, consumed to its end: list(m.samples()) *)

(* self.ts + datetime.timedelta(microseconds=offset * 1000) *)
PlusOffset(ts, offset) ==
    IF offset.k \notin {"int", "float"} \/ ts.k # "dt" THEN Raised("TypeError")
    ELSE Returned(DateTime(ts.t + 2 * offset.n, ts.off))

(* lst[n], n counted from 0 *)
ItemAt(lst, n) ==
    IF lst.k # "list" THEN Raised("TypeError")
    ELSE IF n >= Len(lst.items) THEN Raised("IndexError")
    ELSE Returned(lst.items[n + 1])

(* getattr(self.series, name)[n] *)
SampleValue(series, name, n) ==
    IF HasPropAttr("Series", name)
    THEN ItemAt(PropertyGet(series, PropAttr("Series", name)).val, n)
    ELSE IF name \notin DOMAIN series.attrs THEN Raised("AttributeError")
    ELSE IF series.attrs[name] = Alias
         THEN IF name \in DOMAIN series.data THEN ItemAt(series.data[name], n)
              ELSE Raised("AttributeError")
    ELSE ItemAt(series.attrs[name], n)

RECURSIVE SampleValues(_, _, _, _)

ValuesRest(series, names, n, d, v) ==
    IF v.exc # "none" THEN v ELSE SampleValues(series, Tail(names), n, Put(d, Head(names), v.val))

(* for name in names: d[name] = getattr(self.series, name)[n] *)
SampleValues(series, names, n, d) ==
    IF names = <<>> THEN Returned(DictV(d))
    ELSE ValuesRest(series, names, n, d, SampleValue(series, Head(names), n))

(* the outcome v of an expression, as a result on the instance o *)
On(o, v) == [exc |-> v.exc, obj |-> o, val |-> v.val]

(* d = {"ts": self.ts + dt} and the loop over names; g is the read of self.ts *)
SampleDict(g, series, n, dt) ==
    IF dt.exc # "none" THEN Failed(dt.exc, g.obj)
    ELSE On(g.obj, SampleValues(series, SetToSeq(series.dims), n, Put(EmptyStore, "ts", dt.val)))

(* one turn of the loop over the offsets *)
Sample(g, n, offset) == SampleDict(g, g.obj.data["series"], n, PlusOffset(g.val, offset))

RECURSIVE SamplesFrom(_, _, _, _)

SamplesNext(r, offsets, n, acc) ==
    IF r.exc # "none" THEN Failed(r.exc, r.obj)
    ELSE SamplesFrom(r.obj, offsets, n + 1, Append(acc, r.val))

(* for n, offset in enumerate(self.series.offsets): ... yield d *)
SamplesFrom(o, offsets, n, acc) ==
    IF n >= Len(offsets) THEN Done(o, ListV(acc))
    ELSE SamplesNext(Sample(PropertyGet(o, PropAttr("Measurement", "ts")), n, offsets[n + 1]),
                     offsets, n, acc)

(* enumerate(self.series.offsets): g is the read of offsets on the series *)
Enumerate(o, g) ==
    IF g.val.k # "list" THEN Failed("TypeError", [o EXCEPT !.data["series"] = g.obj])
    ELSE SamplesFrom([o EXCEPT !.data["series"] = g.obj], g.val.items, 0, <<>>)

(* names = self.series.dimensions: g is the read of self.series *)
SamplesOf(g) ==
    IF ~(IsObj(g.val) /\ g.val.cls = "Series") THEN Failed("AttributeError", g.obj)
    ELSE Enumerate(g.obj, PropertyGet(g.val, PropAttr("Series", "offsets")))

(* Measurement.samples() *)
samples(o) == SamplesOf(PropertyGet(o, PropAttr("Measurement", "series")))

----------------------------------------------------------------------------
(* measurement.device_measurement, attached to Device as Device.measurement *)

(* return dumps(payload) *)
Dumped(r) == IF r.exc # "none" THEN r ELSE Returned(dumps(r.val))

(* payload.measurements.append(m); m.add_sample(ts, **kwargs): g is the    *)
(* read of payload.measurements, r the add_sample on the m the list holds  *)
AppendMeasurement(g, r) ==
    IF g.val.k # "list" THEN Raised("AttributeError")
    ELSE IF r.exc # "none" THEN Raised(r.exc)
    ELSE Returned([g.obj EXCEPT !.data["measurements"].items = Append(@, r.obj)])

(* the statements after the two constructors *)
Assemble(payload, m, ts, kwargs, debug) ==
    IF payload.exc # "none" THEN Raised(payload.exc)
    ELSE IF m.exc # "none" THEN Raised(m.exc)
    ELSE Dumped(AppendMeasurement(
                  PropertyGet(payload.obj, PropAttr("MeasurementPayload", "measurements")),
                  Measurement_add_sample(m.obj, ts, kwargs, debug)))

(* device_measurement(device, ts, part, result, code, **kwargs); now is    *)
(* what local_now() returns when ts is None                                *)
device_measurement(device, ts, part, result, code, kwargs, now, debug) ==
    Assemble(MeasurementPayload(device, part, NoneV),
             Measurement(IF ts = NoneV THEN now ELSE ts, result, code,
                         SetToSeq(DOMAIN kwargs), now),
             IF ts = NoneV THEN now ELSE ts, kwargs, debug)

----------------------------------------------------------------------------
(* the program under construction: root is the entity the caller holds     *)
(* (NoneV before one is built); a path leads from it to a nested entity     *)
(* through store keys and list indices                                     *)

Key(key) == [t |-> "key", key |-> key, idx |-> 0]

Idx(i) == [t |-> "idx", key |-> "", idx |-> i]

RECURSIVE GetAt(_, _)
GetAt(v, path) ==
    IF path = <<>> THEN v
    ELSE IF Head(path).t = "key" THEN GetAt(v.data[Head(path).key], Tail(path))
    ELSE GetAt(v.items[Head(path).idx], Tail(path))

RECURSIVE PutAt(_, _, _)
PutAt(v, path, new) ==
    IF path = <<>> THEN new
    ELSE IF Head(path).t = "key"
         THEN [v EXCEPT !.data[Head(path).key] = PutAt(v.data[Head(path).key], Tail(path), new)]
    ELSE [v EXCEPT !.items[Head(path).idx] = PutAt(v.items[Head(path).idx], Tail(path), new)]

RECURSIVE ObjPaths(_)
(* the paths to the entities of the tree below v *)
ObjPaths(v) ==
    CASE v.k = "obj" ->
           {<<>>} \cup UNION {{<<Key(key)>> \o q : q \in ObjPaths(v.data[key])} : key \in DOMAIN v.data}
      [] v.k = "list" ->
           UNION {{<<Idx(i)>> \o q : q \in ObjPaths(v.items[i])} : i \in 1..Len(v.items)}
      [] OTHER -> {}

MaxOps == 3

MaxItems == 1

LongText == "----------------------------------------"

Bosch == [key \in {"maker"} |-> Str("Bosch")]

Device1 == Device(Str("d1"), NoneV, EmptyStore).obj

(* the values a caller assigns to a Property, by the kind of the Property *)
ValuesFor(p) ==
    {NoneV} \cup
    CASE p.convert = "to_string" ->
           {Str("OK"), Bytes("OK"), Str("DEVICE"), Str(LongText), IntV(12)}
      [] p.convert = "float" -> {FloatV(1), IntV(12), Str("12"), Str("X")}
      [] p.convert = "local_timezone" -> {DateTime(0, ""), DateTime(1, LocalTz), Str("T00")}
      [] p.load.load = "one" ->
           {Str("X"), Device1} \cup
           (IF p.load.cls = "Part" THEN {Part(NoneV, Str("p1"), Str("OK"), NoneV, EmptyStore).obj}
            ELSE IF p.load.cls = "Series" THEN {NewSeries(<<"pressure">>).obj}
            ELSE IF p.load.cls = "Limits" THEN {NewLimits(<<"pressure">>).obj}
            ELSE {})
      [] p.load.load = "list" -> {ListV(<<>>), Str("X")}
      [] p.default = "StringMap" -> {DictV(Bosch)}
      [] OTHER -> {ListV(<<>>), ListV(<<IntV(0)>>)}

(* the entities a caller builds first *)
NewRoots ==
    {Device(id, NoneV, md) : id \in {Str("d1"), Str(LongText), IntV(12), NoneV},
                             md \in {EmptyStore, Bosch}}
    \cup {Limit(v, NoneV, NoneV, NoneV) : v \in {NoneV, FloatV(1), IntV(12), Str("X")}}
    \cup {Message(code, ts, NoneV, sev, EmptyStore) :
            code \in {Str("190AB"), NoneV}, ts \in {NoneV, DateTime(1, "")},
            sev \in {NoneV, Str("HIGH"), Str("X")}}
    \cup {MeasurementPayload(d, NoneV, NoneV) : d \in {Device1, Str("X"), NoneV}}
    \cup {MessagePayload(d) : d \in {Device1, Str("X")}}
    \cup {NewLimits(<<"temperature">>), NewSeries(<<"pressure">>)}

(* the entities a caller appends to a list-of-entity field *)
NewItems(cls) ==
    IF cls = "Measurement"
    THEN {Measurement(NoneV, NoneV, NoneV, <<"pressure">>, DateTime(1, LocalTz)).obj}
    ELSE {Message(Str("190AB"), NoneV, NoneV, NoneV, EmptyStore).obj}

DimNames == {"pressure", "temperature"}

Op(op, path, attr, arg, r, before) ==
    [op |-> op, path |-> path, attr |-> attr, arg |-> arg, exc |-> r.exc, val |-> r.val,
     before |-> before]

NoOp == [op |-> "none", path |-> <<>>, attr |-> "", arg |-> NoneV, exc |-> "none",
         val |-> NoneV, before |-> NoneV]

Init ==
    /\ root = NoneV
    /\ last = NoOp
    /\ py3 \in BOOLEAN
    /\ nops = 0

(* the operation leaves r.obj at path and its outcome in last *)
Record(op, path, attr, arg, r, before) ==
    /\ root' = PutAt(root, path, r.obj)
    /\ last' = Op(op, path, attr, arg, r, before)

Props(cls) == {ClassProps(cls)[i] : i \in 1..Len(ClassProps(cls))}

(* r = Class(...): the constructor returns the entity or raises *)
New ==
    /\ root = NoneV
    /\ nops < MaxOps
    /\ \E r \in NewRoots :
         /\ root' = IF r.exc = "none" THEN r.obj ELSE NoneV
         /\ last' = Op("new", <<>>, "", NoneV, [r EXCEPT !.val = NoneV], r.obj)
    /\ nops' = nops + 1
    /\ UNCHANGED py3

(* entity.attr = value *)
Set ==
    /\ root # NoneV
    /\ nops < MaxOps
    /\ \E path \in ObjPaths(root) :
         \E p \in Props(GetAt(root, path).cls) :
           \E value \in ValuesFor(p) :
             Record("set", path, p.attr, value, setattr(GetAt(root, path), p.attr, value),
                    GetAt(root, path))
    /\ nops' = nops + 1
    /\ UNCHANGED py3

(* entity.attr *)
Get ==
    /\ root # NoneV
    /\ nops < MaxOps
    /\ \E path \in ObjPaths(root) :
         \E p \in Props(GetAt(root, path).cls) :
           Record("get", path, p.attr, NoneV, PropertyGet(GetAt(root, path), p),
                  GetAt(root, path))
    /\ nops' = nops + 1
    /\ UNCHANGED py3

(* del entity.attr *)
Del ==
    /\ root # NoneV
    /\ nops < MaxOps
    /\ \E path \in ObjPaths(root) :
         \E p \in Props(GetAt(root, path).cls) :
           Record("del", path, p.attr, NoneV, Done(PropertyDelete(GetAt(root, path), p), NoneV),
                  GetAt(root, path))
    /\ nops' = nops + 1
    /\ UNCHANGED py3

(* container.add_dimension(name) *)
AddDimension ==
    /\ root # NoneV
    /\ nops < MaxOps
    /\ \E path \in ObjPaths(root) :
         /\ GetAt(root, path).cls \in DimClasses
         /\ \E name \in DimNames :
              Record("add_dimension", path, name, NoneV,
                     add_dimension(GetAt(root, path), name, NoneV), GetAt(root, path))
    /\ nops' = nops + 1
    /\ UNCHANGED py3

(* list.append(item) on the list that g read *)
AppendTo(path, p, g, item, before) ==
    /\ g.val.k = "list"
    /\ Len(g.val.items) < MaxItems
    /\ Record("append", path, p.attr, item,
              Done([g.obj EXCEPT !.data[p.name].items = Append(@, item)], NoneV), before)

(* entity.attr.append(item) on a list-of-entity field *)
ListAppend ==
    /\ root # NoneV
    /\ nops < MaxOps
    /\ \E path \in ObjPaths(root) :
         \E p \in Props(GetAt(root, path).cls) :
           /\ p.load.load = "list"
           /\ \E item \in NewItems(p.load.cls) :
                AppendTo(path, p, PropertyGet(GetAt(root, path), p), item, GetAt(root, path))
    /\ nops' = nops + 1
    /\ UNCHANGED py3

(* map[key] = value on the map that g read; m is what __setitem__ did *)
PutInto(path, g, m, value, before) ==
    Record("mapput", path, "metaData", value,
           IF m.exc = "none" THEN Done([g.obj EXCEPT !.data["metaData"] = m.val], NoneV)
           ELSE Failed(m.exc, g.obj),
           before)

MapPutAt(path, g, value, before) ==
    /\ g.val.k = "dict"
    /\ PutInto(path, g, StringMapSet(g.val, "key", value), value, before)

(* entity.metaData[key] = value *)
MapPut ==
    /\ root # NoneV
    /\ nops < MaxOps
    /\ \E path \in ObjPaths(root) :
         /\ HasPropAttr(GetAt(root, path).cls, "metaData")
         /\ \E value \in {Str("123"), IntV(12)} :
              MapPutAt(path, PropertyGet(GetAt(root, path), PropAttr(GetAt(root, path).cls, "metaData")),
                       value, GetAt(root, path))
    /\ nops' = nops + 1
    /\ UNCHANGED py3

Next == New \/ Set \/ Get \/ Del \/ AddDimension \/ ListAppend \/ MapPut

Spec == Init /\ [][Next]_vars

----------------------------------------------------------------------------
(* JSON documents, as the values json.loads makes of their text *)

(* the marker of a key the document leaves out *)
Absent == [k |-> "absent"]

JsonObject(f) == DictV([key \in {x \in DOMAIN f : f[x] # Absent} |-> f[key]])

UNKNOWN_SPEC == "urn:spec://eclipse.org/unide/unknown-message#v9"

ContentSpecs == {Str(MEASUREMENT_SPEC), Str(MESSAGE_SPEC), Str(UNKNOWN_SPEC), ListV(<<>>), Absent}

DeviceDoc(deviceID, operationalStatus, unknown) ==
    JsonObject("deviceID" :> deviceID @@ "operationalStatus" :> operationalStatus
               @@ "unknown" :> unknown)

DeviceDocs ==
    {Absent, NoneV, Str("X"),
     DeviceDoc(Str("d1"), Absent, Absent), DeviceDoc(IntV(5), Absent, Absent),
     DeviceDoc(Str("d1"), NoneV, Absent), DeviceDoc(Str("d1"), Absent, Str("x"))}

SeriesDoc == JsonObject("$_time" :> ListV(<<IntV(0)>>) @@ "pressure" :> ListV(<<IntV(1)>>))

LimitsDoc == JsonObject("pressure" :> JsonObject("upperError" :> IntV(5) @@ "lowerError" :> Absent))

MeasurementDoc(result) ==
    JsonObject("ts" :> Str(isoformat(DateTime(1, LocalTz))) @@ "result" :> result
               @@ "series" :> SeriesDoc @@ "limits" :> LimitsDoc)

(* a measurement whose ts has a fraction of three digits, as in           *)
(* "2002-05-30T09:30:10.123+02:00"                                         *)
MeasurementDocMs ==
    JsonObject("ts" :> Str("T00.001" \o LocalTz) @@ "series" :> SeriesDoc)

MeasurementsDocs ==
    {Absent, ListV(<<MeasurementDoc(Str("OK"))>>), ListV(<<MeasurementDoc(Str("X"))>>),
     ListV(<<MeasurementDocMs>>)}

(* process documents: of what a process payload holds, a device *)
ProcessDocs ==
    {JsonObject("content-spec" :> Str(PROCESS_SPEC) @@ "device" :> d @@ "unknown" :> u) :
        d \in DeviceDocs, u \in {Absent, Str("x")}}

(* the documents a caller hands to loads, and the text that is not an object *)
Documents ==
    {JsonObject("content-spec" :> cs @@ "device" :> d @@ "measurements" :> ms @@ "unknown" :> u) :
        cs \in ContentSpecs, d \in DeviceDocs, ms \in MeasurementsDocs, u \in {Absent, Str("x")}}
    \cup ProcessDocs
    \cup {ListV(<<>>), NoneV}

(* the calls of Class.load(data) a caller makes *)
LoadCalls ==
    {[cls |-> cls, data |-> JsonObject("content-spec" :> cs @@ "device" :> d) ] :
        cls \in {"MeasurementPayload", "MessagePayload"},
        cs \in {Str(MEASUREMENT_SPEC), Str(MESSAGE_SPEC), Absent},
        d \in {Absent, DeviceDoc(Str("d1"), Absent, Absent)}}
    \cup {[cls |-> "Device", data |-> d] : d \in (DeviceDocs \ {Absent}) \cup {JsonObject(<<>>)}}
    \cup {[cls |-> "MeasurementPayload",
           data |-> JsonObject("content-spec" :> Str(MEASUREMENT_SPEC)
                               @@ "device" :> DeviceDoc(Str("d1"), Absent, Absent)
                               @@ "measurements" :> ListV(<<MeasurementDocMs>>))]}
    \cup {[cls |-> "Series", data |-> SeriesDoc], [cls |-> "Limits", data |-> LimitsDoc],
          [cls |-> "Measurement", data |-> MeasurementDoc(Str("OK"))],
          [cls |-> "Measurement", data |-> JsonObject("ts" :> Str("T00") @@ "unknown" :> Str("x"))]}

(* the keys and values a caller writes into entity._data *)
PokeKeys == {"content-spec", "unknown", "deviceID"}

PokeValues == {Str("wrong"), Str(MEASUREMENT_SPEC), NoneV}

(* l is what loads(d, validate) gave: last.before keeps the entity that    *)
(* Payload.load built, also when loads raised after it                     *)
LoadsGave(d, validate, l) ==
    /\ root' = l.val
    /\ last' = [op |-> "loads", path |-> <<>>, attr |-> IF validate THEN "validate" ELSE "",
                arg |-> d, exc |-> l.exc, val |-> l.val, before |-> l.payload]

(* payload = loads(text, validate) *)
Loads ==
    /\ root = NoneV
    /\ nops < MaxOps
    /\ \E d \in Documents :
         \E validate \in BOOLEAN : LoadsGave(d, validate, loads(d, validate))
    /\ nops' = nops + 1
    /\ UNCHANGED py3

NextLoads == Loads

SpecLoads == Init /\ [][NextLoads]_vars

LoadGave(c, r) ==
    /\ root' = r.val
    /\ last' = [op |-> "load", path |-> <<>>, attr |-> c.cls, arg |-> c.data,
                exc |-> r.exc, val |-> NoneV, before |-> NoneV]

(* entity = Class.load(data) *)
Load ==
    /\ root = NoneV
    /\ nops < MaxOps
    /\ \E c \in LoadCalls : LoadGave(c, load(c.cls, c.data))
    /\ nops' = nops + 1
    /\ UNCHANGED py3

(* entity._data[key] = value *)
Poke ==
    /\ root # NoneV
    /\ nops < MaxOps
    /\ \E path \in ObjPaths(root) :
         \E key \in PokeKeys :
           \E value \in PokeValues :
             Record("poke", path, key, value,
                    Done([GetAt(root, path) EXCEPT !.data = Put(@, key, value)], NoneV),
                    GetAt(root, path))
    /\ nops' = nops + 1
    /\ UNCHANGED py3

(* what entity.problems() gave: the list it returned or the exception *)
ProblemsResult(r) == [exc |-> r.exc, obj |-> NoneV, val |-> ListV(r.errs)]

(* errors = entity.problems(); the call writes nothing *)
Problems ==
    /\ root # NoneV
    /\ \E path \in ObjPaths(root) :
         last' = Op("problems", path, "", NoneV, ProblemsResult(problems(GetAt(root, path))),
                    GetAt(root, path))
    /\ UNCHANGED <<root, py3, nops>>

NextStore == New \/ Load \/ AddDimension \/ Poke \/ Problems

SpecStore == Init /\ [][NextStore]_vars

----------------------------------------------------------------------------
(* Property.check applied to a value, as the setter and problems() apply it *)

(* a device whose store was edited into two problems *)
BrokenDevice ==
    [Device1 EXCEPT !.data = Put(Put(@, "unknown", Str("x")), "deviceID", NoneV)]

(* the values handed to Property.check *)
CheckValues ==
    {NoneV, Str("OK"), Str("X"), Str(LongText), Bytes("OK"), IntV(5), FloatV(1),
     DateTime(1, LocalTz), ListV(<<>>), ListV(<<IntV(0)>>), DictV(Bosch), Device1, BrokenDevice,
     NewSeries(<<"pressure">>).obj}

(* errors = []; prop.check(obj, value, errors) for a Property of obj's class *)
Check ==
    /\ \E cls \in Classes :
         \E p \in Props(cls) :
           \E value \in CheckValues :
             last' = Op("check", <<>>, p.attr, value, ProblemsResult(check(cls, p, value)),
                        make_object(cls, EmptyStore))
    /\ UNCHANGED <<root, py3, nops>>

NextCheck == Check

SpecCheck == Init /\ [][NextCheck]_vars

----------------------------------------------------------------------------
(* series and measurements that are built and sampled through the API *)

(* the keyword arguments of an add_sample call *)
SampleData ==
    {EmptyStore, [x \in {"pressure"} |-> FloatV(1)], [x \in {"offsets"} |-> FloatV(5)],
     [x \in {"love"} |-> IntV(42)]}

SampleOffsets == {IntV(0), IntV(10)}

(* how the interpreter of the call was started, as last.attr keeps it *)
Interpreter(debug) == IF debug THEN "" ELSE "-O"

(* the arguments of a call, as last.arg keeps them *)
Args(first, data) == [k |-> "args", first |-> first, data |-> data]

(* the ts of Measurement.add_sample calls: aware and naive datetimes *)
SampleTimes == {DateTime(t, off) : t \in 0..MaxT, off \in {"", LocalTz, "+00:00"}}

SampledRoots ==
    {NewSeries(<<>>), NewSeries(<<"pressure">>), NewSeries(<<"pressure", "temperature">>),
     NewSeries(<<"offsets">>)}
    \cup {Measurement(NoneV, NoneV, NoneV, dimensions, DateTime(MaxT, LocalTz)) :
            dimensions \in {<<>>, <<"pressure">>, <<"offsets">>}}
    \cup {Device(Str("d1"), NoneV, EmptyStore), Device(Str("d2"), NoneV, Bosch)}

(* s = Series(...) *)
Construct ==
    /\ root = NoneV
    /\ nops < MaxOps
    /\ \E r \in SampledRoots :
         /\ root' = IF r.exc = "none" THEN r.obj ELSE NoneV
         /\ last' = Op("new", <<>>, "", NoneV, [r EXCEPT !.val = NoneV], r.obj)
    /\ nops' = nops + 1
    /\ UNCHANGED py3

(* series.add_sample(offset, **data) *)
AddSample ==
    /\ root # NoneV
    /\ nops < MaxOps
    /\ \E path \in ObjPaths(root) :
         /\ GetAt(root, path).cls = "Series"
         /\ \E offset \in SampleOffsets :
              \E data \in SampleData :
                \E debug \in BOOLEAN :
                  Record("add_sample", path, Interpreter(debug), Args(offset, data),
                         Series_add_sample(GetAt(root, path), offset, data, debug),
                         GetAt(root, path))
    /\ nops' = nops + 1
    /\ UNCHANGED py3

(* measurement.add_sample(ts, **kwargs) *)
AddMeasurementSample ==
    /\ root # NoneV
    /\ nops < MaxOps
    /\ \E path \in ObjPaths(root) :
         /\ GetAt(root, path).cls = "Measurement"
         /\ \E ts \in SampleTimes :
              \E kwargs \in SampleData :
                \E debug \in BOOLEAN :
                  Record("Measurement.add_sample", path, Interpreter(debug), Args(ts, kwargs),
                         Measurement_add_sample(GetAt(root, path), ts, kwargs, debug),
                         GetAt(root, path))
    /\ nops' = nops + 1
    /\ UNCHANGED py3

(* list(measurement.samples()) *)
Samples ==
    /\ root # NoneV
    /\ nops < MaxOps
    /\ \E path \in ObjPaths(root) :
         /\ GetAt(root, path).cls = "Measurement"
         /\ Record("samples", path, "", NoneV, samples(GetAt(root, path)), GetAt(root, path))
    /\ nops' = nops + 1
    /\ UNCHANGED py3

(* text = device.measurement(ts=ts, **kwargs); last.val is the JSON value  *)
(* the text denotes                                                        *)
Measure ==
    /\ root # NoneV
    /\ nops < MaxOps
    /\ \E path \in ObjPaths(root) :
         /\ GetAt(root, path).cls = "Device"
         /\ \E ts \in {NoneV, DateTime(0, "")} :
              \E kwargs \in SampleData :
                \E debug \in BOOLEAN :
                  Record("measurement", path, Interpreter(debug), Args(ts, kwargs),
                         On(GetAt(root, path),
                            device_measurement(GetAt(root, path), ts, NoneV, NoneV, NoneV,
                                               kwargs, DateTime(MaxT, LocalTz), debug)),
                         GetAt(root, path))
    /\ nops' = nops + 1
    /\ UNCHANGED py3

NextSamples ==
    Construct \/ AddDimension \/ AddSample \/ AddMeasurementSample \/ Samples \/ Measure

SpecSamples == Init /\ [][NextSamples]_vars

----------------------------------------------------------------------------
(* dimension containers that are built, loaded, declared, assigned by index *)
(* or attribute, read by index, and sampled                                *)

(* the names a caller uses; "offsets" is also the attribute of the        *)
(* Property "$_time" of Series                                             *)
ItemNames == {"pressure", "torque", "offsets"}

(* what a caller assigns to a dimension of a container of class cls *)
ItemValues(cls) ==
    IF cls = "Limits" THEN {Limit(FloatV(1), NoneV, NoneV, NoneV).obj}
    ELSE {ListV(<<IntV(1), IntV(2)>>)}

Containers == {NewSeries(<<>>), NewSeries(<<"pressure">>), NewLimits(<<"pressure">>)}

ContainerDocs == {[cls |-> "Series", data |-> SeriesDoc], [cls |-> "Limits", data |-> LimitsDoc]}

(* c = Series(...) or Limits(...) *)
NewContainer ==
    /\ root = NoneV
    /\ nops < MaxOps
    /\ \E r \in Containers :
         /\ root' = r.obj
         /\ last' = Op("new", <<>>, "", NoneV, [r EXCEPT !.val = NoneV], r.obj)
    /\ nops' = nops + 1
    /\ UNCHANGED py3

(* c = Series.load(data) or Limits.load(data) *)
LoadContainer ==
    /\ root = NoneV
    /\ nops < MaxOps
    /\ \E c \in ContainerDocs : LoadGave(c, load(c.cls, c.data))
    /\ nops' = nops + 1
    /\ UNCHANGED py3

(* container.add_dimension(name), for every name a caller uses *)
Declare ==
    /\ root # NoneV
    /\ root.cls \in DimClasses
    /\ nops < MaxOps
    /\ \E name \in ItemNames :
         Record("add_dimension", <<>>, name, NoneV, add_dimension(root, name, NoneV), root)
    /\ nops' = nops + 1
    /\ UNCHANGED py3

(* container[name] = value *)
SetItem ==
    /\ root # NoneV
    /\ root.cls \in DimClasses
    /\ nops < MaxOps
    /\ \E name \in ItemNames :
         \E value \in ItemValues(root.cls) :
           Record("setitem", <<>>, name, value, __setitem__(root, name, value), root)
    /\ nops' = nops + 1
    /\ UNCHANGED py3

(* container.name = value *)
SetAttr ==
    /\ root # NoneV
    /\ root.cls \in DimClasses
    /\ nops < MaxOps
    /\ \E name \in ItemNames :
         \E value \in ItemValues(root.cls) :
           Record("setattr", <<>>, name, value, setattr(root, name, value), root)
    /\ nops' = nops + 1
    /\ UNCHANGED py3

(* container[name] *)
GetItem ==
    /\ root # NoneV
    /\ root.cls \in DimClasses
    /\ nops < MaxOps
    /\ \E name \in ItemNames :
         Record("getitem", <<>>, name, NoneV, __getitem__(root, name), root)
    /\ nops' = nops + 1
    /\ UNCHANGED py3

NextDims == NewContainer \/ LoadContainer \/ Declare \/ SetItem \/ SetAttr \/ GetItem \/ AddSample

SpecDims == Init /\ [][NextDims]_vars

----------------------------------------------------------------------------
(* Python equality of values: Object.__eq__ compares the _data of two      *)
(* entities, dicts compare by keys and values, aware datetimes by instant, *)
(* numbers by value                                                        *)

Instant(d) == d.t - 2 * MsOf(d.off)

RECURSIVE PyEq(_, _)
PyEq(a, b) ==
    CASE a.k = "obj" /\ b.k = "obj" ->
           /\ DOMAIN a.data = DOMAIN b.data
           /\ \A key \in DOMAIN a.data : PyEq(a.data[key], b.data[key])
      [] a.k = "dict" /\ b.k = "dict" ->
           /\ DOMAIN a.data = DOMAIN b.data
           /\ \A key \in DOMAIN a.data : PyEq(a.data[key], b.data[key])
      [] a.k = "list" /\ b.k = "list" ->
           /\ Len(a.items) = Len(b.items)
           /\ \A i \in 1..Len(a.items) : PyEq(a.items[i], b.items[i])
      [] a.k = "dt" /\ b.k = "dt" ->
           IF a.off = "" \/ b.off = "" THEN a = b ELSE Instant(a) = Instant(b)
      [] a.k \in {"int", "float"} /\ b.k \in {"int", "float"} -> a.n = b.n
      [] OTHER -> a = b

IsPayload(v) == v # NoneV /\ CONTENT_SPEC(v.cls) # ""

(* clone = loads(dumps(obj)); obj == clone *)
roundtrip(obj, clone) == clone.exc = "none" /\ PyEq(obj, clone.val)

----------------------------------------------------------------------------
(* C1: every valid payload built through the public API is equal to what    *)
(* loads returns for its dumps: loads(dumps(P)) == P.                       *)
C1_RoundTrip ==
    (IsPayload(root) /\ problems(root) = Checked(<<>>))
        => roundtrip(root, loads(dumps(root), FALSE))

(* the Property, the entity before and the entity after the last operation *)
LastProp == PropAttr(last.before.cls, last.attr)

After == GetAt(root, last.path)

(* what a value is, read off the declaration of the Property alone *)
OutsideTypes(p, v) == p.types # {} /\ TypeOf(v) \notin p.types

TooLong(p, v) == p.length # NoLength /\ v.k = "str" /\ Len(v.s) > p.length

OutsideEnum(p, v) == p.has_oneof /\ (v.k # "str" \/ v.s \notin p.oneof)

Defective(p, v) ==
    IF v = NoneV THEN ~p.null ELSE OutsideTypes(p, v) \/ TooLong(p, v) \/ OutsideEnum(p, v)

(* the value the setter checks: the result of the convert function *)
DefectiveConverted(p, c) == c.exc # "none" \/ Defective(p, c.val)

(* C2 as stated: an assignment through a Property setter raises whenever    *)
(* the assigned value is outside the enumeration, too long, of a type       *)
(* outside the accepted types, or null for a not-nullable field.            *)
C2_SetterRejectsValue ==
    (last.op = "set" /\ Defective(LastProp, last.arg)) => last.exc # "none"

(* C2 amended: an assignment through a Property setter raises whenever the  *)
(* value is null for a not-nullable field or the value the convert function *)
(* makes of it cannot be made, or is outside the enumeration, too long or   *)
(* of a type outside the accepted types.                                    *)
C2_SetterRejectsConverted ==
    (last.op = "set"
       /\ (IF last.arg = NoneV THEN ~LastProp.null
           ELSE DefectiveConverted(LastProp, convert(LastProp, last.arg))))
        => last.exc # "none"

C2_Witness ==
    /\ last.op = "set"
    /\ last.arg = Str(LongText)
    /\ LastProp.length = DeviceIDLength
    /\ last.exc = "ValueError"

(* C3: when an assignment through a Property setter raises, the backing    *)
(* store of the entity is what it was before the assignment.               *)
C3_FailedSetKeepsStore ==
    (last.op = "set" /\ last.exc # "none") => After.data = last.before.data

(* C4: a nullable field that holds no value (it was set to null, so its    *)
(* key is absent) is still absent from the backing store after it is read, *)
(* and the read returns the unset value: the store never holds a null.     *)
C4_ReadKeepsAbsent ==
    /\ (last.op = "set" /\ last.arg = NoneV) => LastProp.name \notin DOMAIN After.data
    /\ (last.op = "get" /\ LastProp.default = "None"
          /\ LastProp.name \notin DOMAIN last.before.data)
         => (last.val = NoneV /\ LastProp.name \notin DOMAIN After.data)

(* C5: the first read of a never-set field stores the default the factory  *)
(* makes and returns it; a read of a field whose key is present returns    *)
(* the stored value and leaves the store as it is.                         *)
C5_DefaultMemoized ==
    last.op = "get" =>
        IF LastProp.name \in DOMAIN last.before.data
        THEN /\ After.data = last.before.data
             /\ last.val = last.before.data[LastProp.name]
        ELSE /\ After.data = Put(last.before.data, LastProp.name, last.val)
             /\ last.val = default(LastProp)

(* a map that was materialised by a read and then written to is read again *)
C5_Witness ==
    /\ last.op = "get"
    /\ last.attr = "metaData"
    /\ last.val.k = "dict"
    /\ last.val.sm
    /\ "key" \in DOMAIN last.val.data

(* how often problems() reported e *)
Count(errs, e) == Cardinality({i \in 1..Len(errs) : errs[i] = e})

LoadsRegistered ==
    /\ last.op = "loads"
    /\ last.arg.k = "dict"
    /\ "content-spec" \in DOMAIN last.arg.data
    /\ Registered(last.arg.data["content-spec"])

(* C7: loads with validate off returns an entity and raises nothing for    *)
(* every JSON object whose content-spec is registered, whatever the values *)
(* of its other keys.                                                      *)
C7_LoadsNeverRaises ==
    (LoadsRegistered /\ last.attr = "") => (last.exc = "none" /\ IsObj(last.val))

(* C8: when Payload.load has built the payload, loads with validate on     *)
(* raises ValidationError exactly when problems() of that payload is not   *)
(* empty and otherwise returns the payload; loads with validate off never  *)
(* raises ValidationError, and returns the payload also when its           *)
(* problems() is not empty.                                                *)
C8_ValidationErrorIffProblems ==
    last.op = "loads" =>
        /\ (last.attr = "validate" /\ IsObj(last.before)) =>
             /\ problems(last.before).exc = "none"
             /\ last.exc = "ValidationError" <=> problems(last.before).errs # <<>>
             /\ last.exc \in {"ValidationError", "none"}
             /\ last.exc = "none" => last.val = last.before
        /\ last.attr = "" =>
             /\ last.exc # "ValidationError"
             /\ IsObj(last.before) => (last.exc = "none" /\ last.val = last.before)

C8_Witness ==
    /\ last.op = "loads"
    /\ last.attr = "validate"
    /\ last.exc = "ValidationError"
    /\ IsObj(last.before)
    /\ problems(last.before).errs # <<>>

(* validate off, and the payload that loads returned has problems *)
C8_WitnessOff ==
    /\ last.op = "loads"
    /\ last.attr = ""
    /\ last.exc = "none"
    /\ problems(last.val).errs # <<>>

(* the document of the last loads is an object whose content-spec is       *)
(* absent or names no registered payload                                   *)
LoadsUnregistered ==
    /\ last.op = "loads"
    /\ last.arg.k = "dict"
    /\ ("content-spec" \in DOMAIN last.arg.data => ~Registered(last.arg.data["content-spec"]))

C10_ContentSpecReported ==
    (last.op = "problems" /\ CONTENT_SPEC(last.before.cls) # "") =>
        /\ last.exc = "none"
        /\ Count(last.val.items, Err("content-spec", last.before.cls, "content-spec")) > 0
             <=> ("content-spec" \notin DOMAIN last.before.data
                  \/ last.before.data["content-spec"] # Str(CONTENT_SPEC(last.before.cls)))

(* the $_time column of a series and the array of each of its dimensions   *)
(* are lists of one length                                                 *)
EqualLengths(e) ==
    /\ "$_time" \in DOMAIN e.data
    /\ e.data["$_time"].k = "list"
    /\ \A d \in e.dims :
         /\ d \in DOMAIN e.data
         /\ e.data[d].k = "list"
         /\ Len(e.data[d].items) = Len(e.data["$_time"].items)

(* C11: after any sequence of add_dimension and add_sample calls on a      *)
(* Series, the $_time column and the array of every declared dimension     *)
(* have the same length.                                                   *)
C11_EqualLengths ==
    \A path \in ObjPaths(root) :
        GetAt(root, path).cls = "Series" => EqualLengths(GetAt(root, path))

(* C12: a Series.add_sample(offset, values) that returns has appended      *)
(* offset at the end of $_time, at index i, and for every declared         *)
(* dimension the supplied value, or null when none is supplied, at the     *)
(* same index i of its array; the earlier entries are unchanged.           *)
C12_SampleAppended ==
    (last.op = "add_sample" /\ last.exc = "none") =>
        /\ After.data["$_time"].items =
               Append(last.before.data["$_time"].items, last.arg.first)
        /\ \A d \in last.before.dims :
             /\ After.data[d].items =
                    Append(last.before.data[d].items, DictGet(last.arg.data, d))
             /\ Len(After.data[d].items) = Len(After.data["$_time"].items)

(* C13: Series.add_sample with a value for a name that is no declared      *)
(* dimension raises KeyError.                                              *)
C13_UndeclaredKeyError ==
    (last.op = "add_sample" /\ ~(DOMAIN last.arg.data \subseteq last.before.dims))
        => last.exc = "KeyError"

(* the offsets a measurement's series holds *)
OffsetsOf(m) == m.data["series"].data["$_time"].items

(* the instant of a timestamp, a naive one taken in the local timezone *)
LocalInstant(d) == Instant(local_timezone(d))

(* C14: the first Measurement.add_sample(ts) sets the measurement's ts to  *)
(* ts and records offset 0; every later add_sample(ts_i) leaves ts         *)
(* unchanged and records the whole-millisecond difference of ts_i and the  *)
(* fixed ts.  Stated for calls whose keyword names are declared dimensions. *)
C14_OffsetsFromFixedTs ==
    (/\ last.op = "Measurement.add_sample"
     /\ DOMAIN last.arg.data \subseteq last.before.data["series"].dims)
    => /\ last.exc = "none"
       /\ IF OffsetsOf(last.before) = <<>>
          THEN /\ LocalInstant(After.data["ts"]) = LocalInstant(last.arg.first)
               /\ OffsetsOf(After) = <<IntV(0)>>
          ELSE /\ After.data["ts"] = last.before.data["ts"]
               /\ OffsetsOf(After) =
                    Append(OffsetsOf(last.before),
                           IntV((LocalInstant(last.arg.first)
                                 - LocalInstant(last.before.data["ts"])) \div 2))

(* the i-th dictionary that samples() is to yield for the measurement m *)
IsSampleOf(d, m, i) ==
    /\ d.k = "dict"
    /\ DOMAIN d.data = {"ts"} \cup m.data["series"].dims
    /\ d.data["ts"] = DateTime(m.data["ts"].t + 2 * OffsetsOf(m)[i].n, m.data["ts"].off)
    /\ \A name \in m.data["series"].dims :
         /\ name \in DOMAIN m.data["series"].data
         /\ m.data["series"].data[name].k = "list"
         /\ i <= Len(m.data["series"].data[name].items)
         /\ d.data[name] = m.data["series"].data[name].items[i]

(* C15: samples() yields as many dictionaries as there are offsets; the   *)
(* i-th has ts = the measurement's ts plus the i-th offset in milliseconds *)
(* and the i-th value of every declared dimension; a second call yields    *)
(* the same sequence and the call changes no state.                        *)
C15_SamplesOfOffsets ==
    last.op = "samples"
    => /\ last.exc = "none"
       /\ Len(last.val.items) = Len(OffsetsOf(last.before))
       /\ \A i \in 1..Len(last.val.items) : IsSampleOf(last.val.items[i], last.before, i)
       /\ After = last.before
       /\ samples(After).val = last.val

(* C16: for every well-formed document with a registered content-spec,    *)
(* valid or not, loads without validation returns an entity and dumps of   *)
(* it denotes the same JSON value as the document.                         *)
C16_DocumentRoundTrip ==
    (LoadsRegistered /\ last.attr = "")
    => /\ last.exc = "none"
       /\ dumps(last.val) = last.arg

(* the payload has exactly one measurement and its series is              *)
(* {"$_time": [0], name: [v]}                                              *)
OneSample(payload, name, v) ==
    /\ "measurements" \in DOMAIN payload.data
    /\ payload.data["measurements"].k = "list"
    /\ Len(payload.data["measurements"].items) = 1
    /\ "series" \in DOMAIN payload.data["measurements"].items[1].data
    /\ payload.data["measurements"].items[1].data["series"] =
         DictV(name :> ListV(<<v>>) @@ "$_time" :> ListV(<<IntV(0)>>))

(* C17: Device(deviceID=d).measurement(name=v) produces a payload whose    *)
(* content-spec is the measurement URN, whose device.deviceID is d and     *)
(* which has exactly one measurement, with series $_time == [0] and        *)
(* name == [v].                                                            *)
C17_ConvenienceMeasurement ==
    (last.op = "measurement" /\ Cardinality(DOMAIN last.arg.data) = 1)
    => /\ last.exc = "none"
       /\ last.val.k = "dict"
       /\ last.val.data["content-spec"] = Str(MEASUREMENT_SPEC)
       /\ last.val.data["device"].data["deviceID"] = last.before.data["deviceID"]
       /\ \A name \in DOMAIN last.arg.data : OneSample(last.val, name, last.arg.data[name])

(* the declared fields of a class that are not nullable *)
RequiredFields(cls) == {name \in PropNames(cls) : ~get_properties(cls)[name].null}

(* C18: problems() reports an error for every not-nullable declared field  *)
(* that is missing from the backing store or present in it with null.      *)
C18_MissingRequiredReported ==
    last.op = "problems"
    => \A name \in RequiredFields(last.before.cls) :
         DictGet(last.before.data, name) = NoneV
         => /\ last.exc = "none"
            /\ Count(last.val.items, Err("null", last.before.cls, name)) >= 1

(* the entity-valued fields of o that hold an entity of the declared class *)
EntityFields(o) ==
    {name \in PropNames(o.cls) \cap DOMAIN o.data :
        /\ get_properties(o.cls)[name].load.load = "one"
        /\ IsObj(o.data[name])
        /\ o.data[name].cls \in get_properties(o.cls)[name].types}

(* o without its nested entities *)
Own(o) == [o EXCEPT !.data = [key \in (DOMAIN o.data) \ EntityFields(o) |-> o.data[key]]]

RECURSIVE NestedCount(_, _)
(* the number of problems the entities under the fields names report *)
NestedCount(o, names) ==
    IF names = <<>> THEN 0
    ELSE Len(problems(o.data[Head(names)]).errs) + NestedCount(o, Tail(names))

(* errs holds every error of nested at least as often as nested does *)
Contains(errs, nested) == \A i \in 1..Len(nested) : Count(errs, nested[i]) >= Count(nested, nested[i])

(* C19: the list problems() returns for an entity holds every problem of   *)
(* each nested entity that an entity-valued field holds, in addition to    *)
(* the entity's own: the counts add up.                                    *)
C19_NestedProblemsAdditive ==
    (last.op = "problems" /\ last.exc = "none")
    => /\ \A name \in EntityFields(last.before) :
            Contains(last.val.items, problems(last.before.data[name]).errs)
       /\ Len(last.val.items) =
            Len(problems(Own(last.before)).errs)
            + NestedCount(last.before, SetToSeq(EntityFields(last.before)))

(* problems() of a payload whose device holds an unknown key and whose     *)
(* content-spec is wrong returned two errors, one of them the device's     *)
C19_Witness ==
    /\ last.op = "problems"
    /\ last.exc = "none"
    /\ IsPayload(last.before)
    /\ DictGet(last.before.data, "content-spec") = Str("wrong")
    /\ "device" \in EntityFields(last.before)
    /\ "unknown" \in DOMAIN last.before.data["device"].data
    /\ Len(last.val.items) = 2
    /\ Count(last.val.items, Err("key", "Device", "unknown")) = 1

(* the entity e has a problem of its own: problems() of it does not return *)
(* the empty list                                                          *)
HasProblem(e) == problems(e).exc # "none" \/ problems(e).errs # <<>>

(* C20: problems() of a payload reports the problems of every entity in    *)
(* its tree, elements of list-of-entity fields and value objects of        *)
(* dimension containers included: if any of them has a problem, the        *)
(* payload's problems() is not empty.                                      *)
C20_WholeTreeReported ==
    (/\ last.op = "problems"
     /\ IsPayload(last.before)
     /\ \E path \in ObjPaths(last.before) : HasProblem(GetAt(last.before, path)))
    => (last.exc # "none" \/ last.val.items # <<>>)

(* the one error a defective non-null value of a Property is to give: the  *)
(* first of type, length and enumeration that applies                      *)
FirstError(cls, p, v) ==
    IF OutsideTypes(p, v) THEN <<Err("type", cls, p.name)>>
    ELSE IF p.length # NoLength /\ v.k \in {"str", "bytes"} /\ Len(v.s) > p.length
         THEN <<Err("length", cls, p.name)>>
    ELSE IF OutsideEnum(p, v) THEN <<Err("oneof", cls, p.name)>>
    ELSE <<>>

(* C21: Property.check on null reports exactly one error when the field is *)
(* not nullable and none otherwise; on a non-null value it stops at the     *)
(* first of the type, length and enumeration checks that reports an error:  *)
(* a non-entity value yields at most one error and a wrong-typed value is   *)
(* never length- or enum-checked.                                           *)
C21_FirstMatchWins ==
    last.op = "check"
    => /\ last.arg = NoneV
          => /\ last.exc = "none"
             /\ last.val.items = IF LastProp.null THEN <<>>
                                  ELSE <<Err("null", last.before.cls, LastProp.name)>>
       /\ (last.arg # NoneV /\ ~IsObj(last.arg))
          => /\ last.exc = "none"
             /\ Len(last.val.items) <= 1
             /\ last.val.items = FirstError(last.before.cls, LastProp, last.arg)
       /\ (last.arg # NoneV /\ OutsideTypes(LastProp, last.arg))
          => /\ last.exc = "none"
             /\ last.val.items = <<Err("type", last.before.cls, LastProp.name)>>

(* check was handed a value that is of a wrong type and would fail the     *)
(* length check as well, had it a length                                   *)
C21_Witness ==
    /\ last.op = "check"
    /\ last.arg = IntV(5)
    /\ LastProp.length # NoLength
    /\ last.val.items = <<Err("type", last.before.cls, LastProp.name)>>

(* the last call was Object.load of a JSON object *)
ObjectLoaded ==
    /\ last.op = "load"
    /\ last.attr \notin DimClasses
    /\ last.arg.k = "dict"

(* the keys of a raw map that no Property of cls and no discriminator matches *)
ForeignKeys(cls, data) == (DOMAIN data) \ (PropNames(cls) \cup Discriminator(cls))

(* C22: Object.load(rawMap) returns an entity whose backing store has the  *)
(* key set of rawMap; every key without a declared Property keeps its raw  *)
(* value, is never rejected and is reported by problems() as invalid key.  *)
C22_LoadKeepsRawMap ==
    ObjectLoaded
    => /\ last.exc = "none"
       /\ DOMAIN root.data = DOMAIN last.arg.data
       /\ \A key \in ForeignKeys(last.attr, last.arg.data) :
            /\ root.data[key] = last.arg.data[key]
            /\ problems(root).exc = "none"
               => Count(problems(root).errs, Err("key", last.attr, key)) = 1

(* C23: Object.load stores, for each key that matches a declared Property, *)
(* exactly the Property's load transform of the raw value; neither convert *)
(* nor validation is run on it.                                            *)
C23_LoadStoresLoadTransform ==
    ObjectLoaded
    => /\ last.exc = "none"
       /\ \A key \in (DOMAIN last.arg.data) \cap PropNames(last.attr) :
            /\ key \in DOMAIN root.data
            /\ PropertyLoad(get_properties(last.attr)[key], last.arg.data[key]).exc = "none"
            /\ root.data[key] =
                 PropertyLoad(get_properties(last.attr)[key], last.arg.data[key]).val

C25_IndexIsAttribute ==
    /\ last.op = "getitem"
       => /\ last.exc = getattr(last.before, last.attr).exc
          /\ last.val = getattr(last.before, last.attr).val
          /\ After = getattr(last.before, last.attr).obj
    /\ (last.op = "setitem" /\ last.attr \notin last.before.dims)
       => /\ last.attr \in After.dims
          /\ last.attr \in DOMAIN After.data
          /\ add_dimension(last.before, last.attr, NoneV).exc = "none"
          /\ last.exc = setattr(add_dimension(last.before, last.attr, NoneV).obj,
                                last.attr, last.arg).exc
          /\ After = setattr(add_dimension(last.before, last.attr, NoneV).obj,
                             last.attr, last.arg).obj

(* an index assignment to an undeclared name, read back by attribute *)
C25_Witness ==
    /\ last.op = "setitem"
    /\ last.attr \notin last.before.dims
    /\ last.exc = "none"
    /\ last.attr \in After.dims
    /\ getattr(After, last.attr).val = last.arg

C30_AssignedValueStored ==
    (last.op \in {"setitem", "setattr"} /\ last.attr \in last.before.dims /\ last.exc = "none")
    => /\ last.attr \in DOMAIN After.data
       /\ After.data[last.attr] = last.arg
       /\ dumps(After).data[last.attr] = dumps(last.arg)
       /\ getattr(After, last.attr).val = After.data[last.attr]
       /\ __getitem__(After, last.attr).val = After.data[last.attr]

C28_ReadLeavesStore ==
    (last.op = "get" /\ LastProp.default = "None"
       /\ LastProp.name \notin DOMAIN last.before.data)
    => /\ After.data = last.before.data
       /\ problems(After) = problems(last.before)
       /\ PyEq(After, last.before)
       /\ dumps(After) = dumps(last.before)

(* C29: a Series.add_sample call that fails because a keyword names no   *)
(* declared dimension leaves "$_time" and every dimension array as they   *)
(* were before the call.                                                   *)
C29_FailedSampleKeepsArrays ==
    (last.op = "add_sample" /\ last.exc # "none"
       /\ ~(DOMAIN last.arg.data \subseteq last.before.dims))
    => After.data = last.before.data

====
